---------------------------- MODULE Spec2Model ----------------------------
(***************************************************************************)
(* Model of the retrieval-augmented chatbot (src/app.py) and of its        *)
(* companion ingestion script (src/data_ingestion.py).                     *)
(*                                                                         *)
(* Spec        the Streamlit chat application: one script run per page     *)
(*             load or submitted message, split at the three external      *)
(*             calls (embed, retrieve, generate), each of which may fail.  *)
(*             A script run ends before the next interaction is handled.   *)
(* SpecIngest  the ingestion script: load CSV, ensure index, embed every   *)
(*             row, upsert; the script may be launched again afterwards.   *)
(***************************************************************************)
EXTENDS Integers, Sequences, FiniteSets, TLC

(***************************************************************************)
(* Bounds of the model.                                                    *)
(***************************************************************************)
MaxTurns == 2

MaxRows == 2

MaxRuns == 2

(***************************************************************************)
(* Values.                                                                 *)
(***************************************************************************)
\* Python's None, as returned by os.getenv for an unset variable, and the
\* value of a local that has not been assigned in the current script run.
NoneValue == "<None>"

\* bool(v) of an optional string: None and "" are falsy.
Truthy(v) == v # NoneValue /\ v # ""

\* bool(v) of a list: [] is falsy.
TruthyList(v) == Len(v) > 0

\* Values an environment variable can hold.
EnvValues == {NoneValue, "", "key"}

ConfigKeys == {"pinecone_api_key", "google_api_key", "openai_api_key"}

\* Texts a user may type into st.chat_input (non-empty: an empty submission
\* does not pass the walrus test of line 96).
UserInputs == {"u1", "u2"}

\* Embedding vectors a successful embed call may return (never empty).
Embeddings == {<<1, 0>>, <<0, 1>>}

\* Match lists a successful index query may return (top_k = 2, so at most two;
\* an index without data answers with no match).
MatchLists == {<<>>, <<"m1">>, <<"m1", "m2">>}

\* Texts a successful generation call may return.
ModelTexts == {"t1", "t2"}

SeedQuestion == "Does the website offer Cash on Delivery (COD)"

SeedAnswer == "Thanks for your query! Currently, we do not offer Cash on Delivery (COD) on our website. However, we are considering implementing it in the future."

Apology == "Sorry, I couldn't process your request at this time."

MissingKeysError == "Missing API keys. Please set them in your environment variables."

EmbedError == "Error generating embeddings"

QueryError == "Error querying Pinecone"

GenerateError == "Error generating response"

FetchingContext == "<div>Fetching Context...</div>"

SynthesizingContext == "<div>Synthesizing Context...</div>"

Message(role, content) == [role |-> role, content |-> content]

VARIABLES
    \* ---- chat application (src/app.py) ----
    env,              \* the three environment variables of the process
    pc,               \* "start" | "waiting" | "embedding" | "retrieving" | "generating"
    clients,          \* TRUE once initialize_clients has constructed the clients
    seeded,           \* "messages" in st.session_state
    messages,         \* st.session_state.messages
    chat_input_shown, \* the st.chat_input widget is on the page (line 96 reached)
    notices,          \* st.error notices shown by the current script run
    user_input,       \* local of main(), NoneValue when the run has no submission
    query_embedding,  \* local of main()
    query_result,     \* local of main()
    placeholder,      \* content of loading_placeholder, NoneValue when there is none
    turn,             \* number of user messages submitted so far
    calls,            \* history: the external calls made, in order
    seedings,         \* history: how many times lines 86-88 ran
    \* ---- ingestion script (src/data_ingestion.py) ----
    csv,              \* what is at ./dataset/faq.csv
    indexes,          \* names of the indexes that exist at the vector service
    stored,           \* the vector records stored in the index INDEX_NAME
    ipc,              \* "load" | "create_index" | "prepare" | "done" | "aborted"
    df,               \* local of main(): the rows of the table, in order
    rowsDone,         \* rows the loop of prepare_vectors has consumed
    vectors,          \* local of prepare_vectors / main()
    printed,          \* lines printed by the current run
    run,              \* number of the current run of the script
    createLog,        \* history: one entry per call of create_pinecone_index
    upsertLog,        \* history: one entry per upsert call
    storedAtStart,    \* history: `stored` when the current run began
    failedAt          \* history: the step whose exception ended the run, or "none"

appVars == <<env, pc, clients, seeded, messages, chat_input_shown, notices,
             user_input, query_embedding, query_result, placeholder, turn,
             calls, seedings>>

ingestVars == <<csv, indexes, stored, ipc, df, rowsDone, vectors, printed, run,
                createLog, upsertLog, storedAtStart, failedAt>>

vars == <<appVars, ingestVars>>

(***************************************************************************)
(* src/app.py                                                              *)
(***************************************************************************)
\* load_config: the dictionary of the three credentials.
load_config == [k \in ConfigKeys |->
                  CASE k = "pinecone_api_key" -> env.PINECONE_API_KEY
                    [] k = "google_api_key" -> env.GOOGLE_API_KEY
                    [] k = "openai_api_key" -> env.OPENAI_API_KEY]

\* Variant of the credential test: any() where the code has all().
any_config_value(config) == \E k \in DOMAIN config : Truthy(config[k])

\* all(config.values())
all_config_values(config) == \A k \in DOMAIN config : Truthy(config[k])

\* get_embeddings: the embedding on success, [] when the call raises.
get_embeddings(ok, embedding) == IF ok THEN embedding ELSE <<>>

\* Variant of query_pinecone whose handler hands on what the failed call
\* left behind instead of the empty match list.
query_pinecone_no_fallback(ok, matches) == [matches |-> matches]

\* query_pinecone: the query result on success, {"matches": []} when it raises.
query_pinecone(ok, matches) ==
    IF ok THEN [matches |-> matches] ELSE [matches |-> <<>>]

\* Variant of generate_response whose handler returns an empty text.
generate_response_no_apology(ok, text) == IF ok THEN text ELSE ""

\* generate_response: the model's text on success, the apology when it raises.
generate_response(ok, text) == IF ok THEN text ELSE Apology

\* One entry of the call history.
Call(op, ok, arg) == [turn |-> turn, op |-> op, ok |-> ok, arg |-> arg]

\* Lines 85-88: the conversation log after the seeding block.
SeedLog == <<Message("human", SeedQuestion), Message("ai", SeedAnswer)>>

\* Variant of the seeding test: the guard of line 85 left out.
AlwaysSeed == TRUE

NeedsSeed == ~seeded

AfterSeed == IF NeedsSeed THEN SeedLog ELSE messages

\* Lines 76-79 of main(): the run stops with the error notice, before
\* any client is constructed and before st.chat_input is reached.
Blocked ==
    /\ pc \in {"start", "waiting"}
    /\ ~all_config_values(load_config)
    /\ notices' = {MissingKeysError}
    /\ chat_input_shown' = FALSE
    /\ user_input' = NoneValue
    /\ query_embedding' = NoneValue
    /\ query_result' = NoneValue
    /\ placeholder' = NoneValue
    /\ pc' = "waiting"
    /\ UNCHANGED <<env, clients, seeded, messages, turn, calls, seedings>>
    /\ UNCHANGED ingestVars

\* main() run without a submitted message (first page load, or a rerun):
\* lines 76-96, st.chat_input returns None.
PageLoad ==
    /\ pc \in {"start", "waiting"}
    /\ all_config_values(load_config)
    /\ clients' = TRUE
    /\ messages' = AfterSeed
    /\ seedings' = IF NeedsSeed THEN seedings + 1 ELSE seedings
    /\ seeded' = TRUE
    /\ chat_input_shown' = TRUE
    /\ notices' = {}
    /\ user_input' = NoneValue
    /\ query_embedding' = NoneValue
    /\ query_result' = NoneValue
    /\ placeholder' = NoneValue
    /\ pc' = "waiting"
    /\ UNCHANGED <<env, turn, calls>>
    /\ UNCHANGED ingestVars

\* main() run with a submitted message, up to the embed call: lines 76-128.
Submit(text) ==
    /\ pc = "waiting"
    /\ chat_input_shown
    /\ turn < MaxTurns
    /\ all_config_values(load_config)
    /\ clients' = TRUE
    /\ seedings' = IF NeedsSeed THEN seedings + 1 ELSE seedings
    /\ seeded' = TRUE
    /\ chat_input_shown' = TRUE
    /\ notices' = {}
    /\ user_input' = text
    /\ messages' = Append(AfterSeed, Message("human", text))
    /\ placeholder' = FetchingContext
    /\ query_embedding' = NoneValue
    /\ query_result' = NoneValue
    /\ turn' = turn + 1
    /\ pc' = "embedding"
    /\ UNCHANGED <<env, calls>>
    /\ UNCHANGED ingestVars

\* Line 128-129: the embed call returns or raises; with an empty embedding
\* the body of the `if` is skipped and the script run ends.
Embed(ok, embedding) ==
    /\ pc = "embedding"
    /\ query_embedding' = get_embeddings(ok, embedding)
    /\ calls' = Append(calls, Call("embed", ok, user_input))
    /\ notices' = IF ok THEN notices ELSE notices \cup {EmbedError}
    /\ pc' = IF TruthyList(query_embedding') THEN "retrieving" ELSE "waiting"
    /\ UNCHANGED <<env, clients, seeded, messages, chat_input_shown, user_input,
                   query_result, placeholder, turn, seedings>>
    /\ UNCHANGED ingestVars

\* Lines 130-149: the index query returns or raises, then the placeholder
\* switches to the second animation.
Retrieve(ok, matches) ==
    /\ pc = "retrieving"
    /\ query_result' = query_pinecone(ok, matches)
    /\ calls' = Append(calls, Call("retrieve", ok, query_embedding))
    /\ notices' = IF ok THEN notices ELSE notices \cup {QueryError}
    /\ placeholder' = SynthesizingContext
    /\ pc' = "generating"
    /\ UNCHANGED <<env, clients, seeded, messages, chat_input_shown, user_input,
                   query_embedding, turn, seedings>>
    /\ UNCHANGED ingestVars

\* Lines 152-158: the generation call returns or raises, the response
\* replaces the animation and is appended to the log; the run ends.
Generate(ok, text) ==
    /\ pc = "generating"
    /\ calls' = Append(calls, Call("generate", ok, query_result.matches))
    /\ notices' = IF ok THEN notices ELSE notices \cup {GenerateError}
    /\ placeholder' = generate_response(ok, text)
    /\ messages' = Append(messages, Message("ai", generate_response(ok, text)))
    /\ pc' = "waiting"
    /\ UNCHANGED <<env, clients, seeded, chat_input_shown, user_input,
                   query_embedding, query_result, turn, seedings>>
    /\ UNCHANGED ingestVars

(***************************************************************************)
(* src/data_ingestion.py                                                   *)
(***************************************************************************)
INDEX_NAME == "ukmegashop-faq"

FilePath == "./dataset/faq.csv"

\* Contents of the Question and Answer cells of the CSV file.
Questions == {"q1", "q2"}

Answers == {"a1", "a2"}

Rows == [Question : Questions, Answer : Answers]

\* The tables pd.read_csv can return: up to MaxRows rows, in file order.
Tables == UNION {[1..n -> Rows] : n \in 0..MaxRows}

\* What can be at FilePath: nothing, something read_csv rejects, or a table.
CsvFiles == {[kind |-> "missing", rows |-> <<>>],
             [kind |-> "unreadable", rows |-> <<>>]}
            \cup {[kind |-> "table", rows |-> t] : t \in Tables}

\* The embedding model's answer for a text: the same text embeds to the
\* same vector.
EmbeddingOf(text) == IF text = "q1" THEN <<1, 0>> ELSE <<0, 1>>

\* A record left in the index by an earlier ingestion.
OldVector == [id |-> "qa_0", values |-> <<0, 1>>,
              metadata |-> [question |-> "q0", answer |-> "a0"]]

Digit(d) == CASE d = 0 -> "0" [] d = 1 -> "1" [] d = 2 -> "2" [] d = 3 -> "3"
              [] d = 4 -> "4" [] d = 5 -> "5" [] d = 6 -> "6" [] d = 7 -> "7"
              [] d = 8 -> "8" [] d = 9 -> "9"

\* str(n) of a non-negative integer, as the f-string of line 81 formats it.
RECURSIVE str(_)
str(n) == IF n < 10 THEN Digit(n) ELSE str(n \div 10) \o Digit(n % 10)

\* The label df.iterrows() yields for the row at 1-based position i: read_csv
\* gives the table a RangeIndex, so the labels are 0, 1, 2, ...
RowIndex(i) == i - 1

\* Variant of the id: numbered from one.
vector_id_one_based(idx) == "qa_" \o str(idx + 1)

\* Line 81.
vector_id(idx) == "qa_" \o str(idx)

\* Lines 78-87: the record built for one row.
make_vector(idx, row, embedding) ==
    [id |-> vector_id(idx),
     values |-> embedding,
     metadata |-> [question |-> row.Question, answer |-> row.Answer]]

\* Variant of the existence test: create unconditionally.
index_always_missing(names) == TRUE

\* Line 35: the test that decides whether create_index is called.
index_missing(names) == INDEX_NAME \notin names

\* The vector service's upsert: insert, or overwrite the record of the same id.
Upserted(old, new) ==
    {v \in old : \A i \in 1..Len(new) : new[i].id # v.id}
        \cup {new[i] : i \in 1..Len(new)}

\* Lines 110-114: an exception that leaves main() is printed; the run ends.
Abort(step, message) ==
    /\ printed' = Append(printed, "An error occurred: " \o message)
    /\ failedAt' = step
    /\ ipc' = "aborted"

ServiceError == "service error"

\* load_and_process_data, lines 46-64 (called at line 97).
LoadData ==
    /\ ipc = "load"
    /\ CASE csv.kind = "missing" ->
              /\ Abort("load", "CSV file not found at: " \o FilePath)
              /\ UNCHANGED df
         [] csv.kind = "unreadable" ->
              /\ Abort("load", "Error loading CSV file: parse error")
              /\ UNCHANGED df
         [] csv.kind = "table" ->
              /\ df' = csv.rows
              /\ printed' = Append(printed, "Data preview:")
              /\ ipc' = "create_index"
              /\ UNCHANGED failedAt
    /\ UNCHANGED <<csv, indexes, stored, rowsDone, vectors, run, createLog,
                   upsertLog, storedAtStart>>
    /\ UNCHANGED appVars

\* create_pinecone_index, lines 33-44 (called at line 100).  listOk and
\* createOk say whether the service answers the list and the create call; the
\* service also rejects the creation of an index that exists.
CreateIndex(listOk, createOk) ==
    /\ ipc = "create_index"
    /\ LET names == indexes
           issue == listOk /\ index_missing(names)
           outcome == IF ~issue THEN "none"
                      ELSE IF INDEX_NAME \in indexes THEN "rejected"
                      ELSE IF createOk THEN "ok" ELSE "failed"
           raised == ~listOk \/ outcome \in {"rejected", "failed"}
       IN /\ indexes' = IF outcome = "ok" THEN indexes \cup {INDEX_NAME} ELSE indexes
          /\ createLog' = Append(createLog,
                                 [run |-> run,
                                  existed |-> INDEX_NAME \in indexes,
                                  listed |-> listOk,
                                  present |-> listOk /\ INDEX_NAME \in names,
                                  create |-> outcome,
                                  raised |-> raised])
          /\ IF raised
             THEN Abort("create_index", ServiceError)
             ELSE /\ printed' = Append(printed,
                                       IF issue
                                       THEN "Created Pinecone index: " \o INDEX_NAME
                                       ELSE "Index " \o INDEX_NAME \o " already exists.")
                  /\ ipc' = "prepare"
                  /\ UNCHANGED failedAt
    /\ UNCHANGED <<csv, stored, df, rowsDone, vectors, run, upsertLog,
                   storedAtStart>>
    /\ UNCHANGED appVars

\* Variant of the loop body that swallows a failed embed call and goes on to
\* the next row, as the chat application's get_embeddings does.
PrepareRow_skip_failed(ok) ==
    /\ ipc = "prepare"
    /\ rowsDone < Len(df)
    /\ LET i == rowsDone + 1
       IN /\ vectors' = IF ok
                        THEN Append(vectors, make_vector(RowIndex(i), df[i], EmbeddingOf(df[i].Question)))
                        ELSE vectors
          /\ rowsDone' = rowsDone + 1
          /\ UNCHANGED <<printed, ipc, failedAt>>
    /\ UNCHANGED <<csv, indexes, stored, df, run, createLog, upsertLog,
                   storedAtStart>>
    /\ UNCHANGED appVars

\* One iteration of the loop of prepare_vectors, lines 77-88: the embed call
\* of line 80 (get_embeddings, lines 19-31, no handler) returns or raises.
PrepareRow(ok) ==
    /\ ipc = "prepare"
    /\ rowsDone < Len(df)
    /\ LET i == rowsDone + 1
       IN IF ok
          THEN /\ vectors' = Append(vectors, make_vector(RowIndex(i), df[i], EmbeddingOf(df[i].Question)))
               /\ rowsDone' = rowsDone + 1
               /\ UNCHANGED <<printed, ipc, failedAt>>
          ELSE /\ Abort("embed", ServiceError)
               /\ UNCHANGED <<vectors, rowsDone>>
    /\ UNCHANGED <<csv, indexes, stored, df, run, createLog, upsertLog,
                   storedAtStart>>
    /\ UNCHANGED appVars

\* prepare_vectors has returned: every row has been visited.
Prepared == ipc = "prepare" /\ rowsDone = Len(df)

\* Lines 106-108: the single upsert call returns or raises.
Upsert(ok) ==
    /\ Prepared
    /\ upsertLog' = Append(upsertLog, [run |-> run, vectors |-> vectors, ok |-> ok])
    /\ IF ok
       THEN /\ stored' = Upserted(stored, vectors)
            /\ printed' = Append(printed,
                                 "Successfully upserted " \o str(Len(vectors))
                                     \o " vectors into " \o INDEX_NAME \o ".")
            /\ ipc' = "done"
            /\ UNCHANGED failedAt
       ELSE /\ Abort("upsert", ServiceError)
            /\ UNCHANGED stored
    /\ UNCHANGED <<csv, indexes, df, rowsDone, vectors, run, createLog,
                   storedAtStart>>
    /\ UNCHANGED appVars

\* The script is launched again (a new process: the locals start afresh, the
\* file and the vector service are as the previous run left them).
Relaunch ==
    /\ ipc \in {"done", "aborted"}
    /\ run < MaxRuns
    /\ run' = run + 1
    /\ ipc' = "load"
    /\ df' = <<>>
    /\ rowsDone' = 0
    /\ vectors' = <<>>
    /\ printed' = <<>>
    /\ storedAtStart' = stored
    /\ failedAt' = "none"
    /\ UNCHANGED <<csv, indexes, stored, createLog, upsertLog>>
    /\ UNCHANGED appVars

(***************************************************************************)
(* Initial states and specifications.                                      *)
(***************************************************************************)
InitApp ==
    /\ env \in [{"PINECONE_API_KEY", "GOOGLE_API_KEY", "OPENAI_API_KEY"} -> EnvValues]
    /\ pc = "start"
    /\ clients = FALSE
    /\ seeded = FALSE
    /\ messages = <<>>
    /\ chat_input_shown = FALSE
    /\ notices = {}
    /\ user_input = NoneValue
    /\ query_embedding = NoneValue
    /\ query_result = NoneValue
    /\ placeholder = NoneValue
    /\ turn = 0
    /\ calls = <<>>
    /\ seedings = 0

InitIngest ==
    /\ csv \in CsvFiles
    /\ indexes \in SUBSET {INDEX_NAME, "other-index"}
    /\ stored \in IF INDEX_NAME \in indexes THEN {{}, {OldVector}} ELSE {{}}
    /\ ipc = "load"
    /\ df = <<>>
    /\ rowsDone = 0
    /\ vectors = <<>>
    /\ printed = <<>>
    /\ run = 1
    /\ createLog = <<>>
    /\ upsertLog = <<>>
    /\ storedAtStart = stored
    /\ failedAt = "none"

\* The chat application; the ingestion script is not running.
Init ==
    /\ InitApp
    /\ InitIngest
    /\ csv.kind = "missing"
    /\ indexes = {INDEX_NAME}
    /\ stored = {}

Next ==
    \/ Blocked
    \/ PageLoad
    \/ \E text \in UserInputs : Submit(text)
    \/ \E ok \in BOOLEAN, embedding \in Embeddings : Embed(ok, embedding)
    \/ \E ok \in BOOLEAN, matches \in MatchLists : Retrieve(ok, matches)
    \/ \E ok \in BOOLEAN, text \in ModelTexts : Generate(ok, text)

Spec == Init /\ [][Next]_vars

\* The ingestion script; no chat session is open.
InitIngestOnly ==
    /\ InitApp
    /\ \A k \in DOMAIN env : env[k] = "key"
    /\ InitIngest

NextIngest ==
    \/ LoadData
    \/ \E listOk \in BOOLEAN, createOk \in BOOLEAN : CreateIndex(listOk, createOk)
    \/ \E ok \in BOOLEAN : PrepareRow(ok)
    \/ \E ok \in BOOLEAN : Upsert(ok)
    \/ Relaunch

SpecIngest == InitIngestOnly /\ [][NextIngest]_vars

(***************************************************************************)
(* Properties of the chat application (checked under Spec).                *)
(***************************************************************************)
IsPrefix(a, b) == Len(a) <= Len(b) /\ SubSeq(b, 1, Len(a)) = a

\* The calls of turn t with the given operation, in the order made.
CallsOf(t, op) == SelectSeq(calls, LAMBDA c : c.turn = t /\ c.op = op)

\* The operations called during turn t, in the order made.
OpsOf(t) ==
    LET own == SelectSeq(calls, LAMBDA c : c.turn = t)
    IN [i \in 1..Len(own) |-> own[i].op]

\* The script run that handled the t-th user message has ended.
TurnDone(t) == t < turn \/ (t = turn /\ pc = "waiting")

\* A credential is unset or empty.
MissingCredential == \E k \in DOMAIN env : env[k] \in {NoneValue, ""}

\* Position in the log of the t-th submitted user message (the seed pair
\* holds one earlier human turn).
HumanPos(t) ==
    CHOOSE i \in 1..Len(messages) :
        /\ messages[i].role = "human"
        /\ Cardinality({j \in 1..i : messages[j].role = "human"}) = t + 1

\* The assistant turns that directly follow the t-th user message.
AiAfter(t) ==
    {j \in (HumanPos(t) + 1)..Len(messages) :
        \A k \in (HumanPos(t) + 1)..j : messages[k].role = "ai"}

\* The script run that just ended handled a user message.
RunHandledMessage == pc = "waiting" /\ user_input # NoneValue

\* C1: every submitted user message reaches the state 'rendered' before the
\* next one can be submitted: when the script run of a user message has
\* ended, the loading placeholder holds an assistant response and that
\* response is the last entry of the conversation log, whichever calls failed.
C1_TurnAlwaysRendered ==
    RunHandledMessage =>
        /\ placeholder \notin {NoneValue, FetchingContext, SynthesizingContext}
        /\ messages[Len(messages)] = Message("ai", placeholder)

\* C2: when the embed call of a turn succeeded and its index query raised,
\* query_pinecone returned the empty match set, the generator is invoked
\* exactly once with that empty match set, and exactly one assistant turn
\* follows the user message in the conversation log.
C2_RetrievalFailureStillAnswers ==
    \A t \in 1..turn :
        (/\ Len(CallsOf(t, "embed")) = 1 /\ CallsOf(t, "embed")[1].ok
         /\ Len(CallsOf(t, "retrieve")) = 1 /\ ~CallsOf(t, "retrieve")[1].ok)
        => /\ (t = turn /\ pc = "generating") => query_result = [matches |-> <<>>]
           /\ Len(CallsOf(t, "generate")) <= 1
           /\ \A i \in 1..Len(CallsOf(t, "generate")) :
                  CallsOf(t, "generate")[i].arg = <<>>
           /\ TurnDone(t) =>
                  /\ Len(CallsOf(t, "generate")) = 1
                  /\ Cardinality(AiAfter(t)) = 1

\* C2 witness: a finished turn whose embed call succeeded, whose index query
\* raised and whose answer was generated by the model.
C2_Witness ==
    /\ turn = 1 /\ pc = "waiting"
    /\ Len(calls) = 3
    /\ calls[1].ok /\ ~calls[2].ok /\ calls[3].ok
    /\ QueryError \in notices
    /\ Len(messages) = 4

\* C3: every user message triggers exactly one embed call, then exactly one
\* retrieve call, then exactly one generate call, in that order and on every
\* path, and the calls of different turns do not interleave.
C3_OneCallEachInOrder ==
    /\ \A t \in 1..turn : TurnDone(t) => OpsOf(t) = <<"embed", "retrieve", "generate">>
    /\ \A i, j \in 1..Len(calls) : i <= j => calls[i].turn <= calls[j].turn

\* C4: when the generation call raises, generate_response returns the fixed
\* apology: the apology replaces the placeholder, it is the assistant turn
\* appended for that user message, and the session accepts the next message.
C4_GenerationFailureApologises ==
    \A t \in 1..turn :
        (Len(CallsOf(t, "generate")) = 1 /\ ~CallsOf(t, "generate")[1].ok)
        => /\ TurnDone(t)
           /\ Cardinality(AiAfter(t)) = 1
           /\ messages[HumanPos(t) + 1] = Message("ai", Apology)
           /\ (t = turn /\ user_input # NoneValue) =>
                  /\ placeholder = Apology
                  /\ GenerateError \in notices
                  /\ pc = "waiting" /\ chat_input_shown

\* C4 witness: the second turn's generation call raised after the first
\* turn was answered by the model.
C4_Witness ==
    /\ turn = 2 /\ pc = "waiting"
    /\ Len(calls) = 6
    /\ calls[3].ok /\ ~calls[6].ok
    /\ placeholder = Apology
    /\ Len(messages) = 6

\* C7: with a credential missing, startup is blocked with the error notice:
\* no client is constructed, the log is not seeded, the chat input is not
\* offered, no user message is accepted and no external call is made.
C7_MissingCredentialBlocksStartup ==
    MissingCredential =>
        /\ pc \in {"start", "waiting"}
        /\ pc = "waiting" => notices = {MissingKeysError}
        /\ ~clients
        /\ ~seeded /\ messages = <<>> /\ seedings = 0
        /\ ~chat_input_shown
        /\ turn = 0 /\ user_input = NoneValue
        /\ calls = <<>>

\* C7 witness: exactly one credential is missing and the script has run.
C7_Witness ==
    /\ Cardinality({k \in DOMAIN env : env[k] \in {NoneValue, ""}}) = 1
    /\ pc = "waiting"
    /\ notices = {MissingKeysError}

\* C9: the conversation log is append-only within a session: it is seeded
\* once, by the first script run, with the canned pair, never seeded again,
\* and every step leaves the earlier log as a prefix of the later one.
C9_LogAppendOnly ==
    [][/\ IsPrefix(messages, messages')
       /\ seeded => seeded'
       /\ seedings' <= 1
       /\ seedings' # seedings => (pc = "start" /\ messages = <<>>)
       /\ seeded' => (seedings' = 1 /\ IsPrefix(SeedLog, messages'))
       /\ clients' => seeded']_vars

\* C9 witness: a rerun of the script after two answered turns shows the
\* seed pair and both turns.
C9_Witness ==
    /\ pc = "waiting" /\ user_input = NoneValue
    /\ turn = 2
    /\ Len(messages) = 6
    /\ seedings = 1

\* C10: whenever the session waits for the next user message the log has
\* even length and alternates human, ai, human, ai, ...
C10_LogAlternates ==
    (pc = "waiting" /\ seeded) =>
        /\ Len(messages) % 2 = 0
        /\ \A i \in 1..Len(messages) :
               messages[i].role = IF i % 2 = 1 THEN "human" ELSE "ai"

(***************************************************************************)
(* Properties of the ingestion script (checked under SpecIngest).          *)
(***************************************************************************)
\* Create calls issued by one invocation of create_pinecone_index.
CreateCalls(e) == IF e.create = "none" THEN 0 ELSE 1

\* No call to the vector service failed during the invocation.
ServiceAnswered(e) == e.listed /\ e.create # "failed"

\* Pairs of successive invocations of create_pinecone_index.
SuccessivePairs == {k \in 1..Len(createLog) : k + 1 <= Len(createLog)}

\* C5: create_pinecone_index is idempotent.  Whatever indexes exist, two
\* successive invocations that the vector service answers issue exactly one
\* create call in total when the index was absent and none when it was
\* present, and the second raises no error.  In every invocation, answered
\* or not: no create call is issued for a name that list_indexes reports,
\* none is issued while the index exists, none is rejected as a duplicate,
\* at most one create call of two successive invocations succeeds, and an
\* invocation raises only when the service fails one of its own calls.
C5_IdempotentCreate ==
    /\ \A k \in SuccessivePairs :
          LET a == createLog[k]
              b == createLog[k + 1]
              total == CreateCalls(a) + CreateCalls(b)
          IN /\ Cardinality({e \in {k, k + 1} : createLog[e].create = "ok"}) <= 1
             /\ (ServiceAnswered(a) /\ ServiceAnswered(b)) =>
                    /\ total = IF a.existed THEN 0 ELSE 1
                    /\ ~b.raised
             /\ b.raised => ~ServiceAnswered(b)
    /\ \A k \in 1..Len(createLog) :
          LET e == createLog[k]
          IN /\ e.present => e.create = "none"
             /\ e.create # "rejected"
             /\ (e.listed /\ ~e.present) => e.create # "none"
             /\ e.existed => e.create = "none"

\* C5 witness: the index was absent, the first invocation created it and
\* the second found it and raised nothing.
C5_Witness ==
    /\ Len(createLog) = 2
    /\ ~createLog[1].existed /\ createLog[1].create = "ok"
    /\ createLog[2].present /\ createLog[2].create = "none"
    /\ ~createLog[2].raised

\* C6: when every embed call succeeds, prepare_vectors returns one record
\* per row, in row order; the i-th record's id is qa_<row index>, the ids
\* are pairwise distinct and the metadata is the row's question/answer pair.
C6_OneRecordPerRow ==
    Prepared =>
        /\ Len(vectors) = Len(csv.rows)
        /\ \A i \in 1..Len(vectors) :
              /\ vectors[i].id = "qa_" \o str(i - 1)
              /\ vectors[i].metadata =
                     [question |-> csv.rows[i].Question, answer |-> csv.rows[i].Answer]
        /\ \A i, j \in 1..Len(vectors) : vectors[i].id = vectors[j].id => i = j

\* C6 witness: prepare_vectors has returned for a table of MaxRows rows
\* whose first two rows are equal.
C6_Witness ==
    /\ Prepared
    /\ Len(df) = MaxRows
    /\ df[1] = df[2]
    /\ Len(vectors) = MaxRows

\* The upsert calls of run r.
UpsertsOf(r) == SelectSeq(upsertLog, LAMBDA u : u.run = r)

\* The records of all the rows of the table, whatever their embeddings.
CoversAllRows(vs) ==
    /\ Len(vs) = Len(csv.rows)
    /\ \A i \in 1..Len(vs) :
          /\ vs[i].id = "qa_" \o str(i - 1)
          /\ vs[i].metadata =
                 [question |-> csv.rows[i].Question, answer |-> csv.rows[i].Answer]

\* C8: a run calls upsert at most once and only with the records of all the
\* rows; when CSV loading, index creation or an embed call fails the run
\* aborts with a printed error, upsert is not invoked and the stored vectors
\* are unchanged.
C8_NoPartialWrite ==
    /\ \A r \in 1..run : Len(UpsertsOf(r)) <= 1
    /\ \A k \in 1..Len(upsertLog) : CoversAllRows(upsertLog[k].vectors)
    /\ failedAt \in {"load", "create_index", "embed"} =>
          /\ ipc = "aborted"
          /\ Len(printed) > 0
          /\ printed[Len(printed)] \in
                 {"An error occurred: " \o m :
                     m \in {"CSV file not found at: " \o FilePath,
                            "Error loading CSV file: parse error",
                            ServiceError}}
          /\ UpsertsOf(run) = <<>>
          /\ stored = storedAtStart
    /\ stored # storedAtStart =>
          /\ Len(UpsertsOf(run)) = 1
          /\ UpsertsOf(run)[1].ok
          /\ \A i \in 1..Len(csv.rows) :
                \E v \in stored : v.id = "qa_" \o str(i - 1)
    /\ (ipc \in {"load", "create_index", "prepare"}) => UpsertsOf(run) = <<>>

\* C8 witness: the embed call of the second row fails in a run that finds
\* an earlier ingestion's record in the index; the record is untouched.
C8_Witness ==
    /\ ipc = "aborted" /\ failedAt = "embed"
    /\ Len(vectors) = 1 /\ Len(df) = 2
    /\ stored = {OldVector}
    /\ upsertLog = <<>>

=============================================================================
